---------------------------- MODULE Spec2Model ----------------------------
(***************************************************************************)
(* A model of fakturoid/utils.py: the helpers that build Fakturoid client  *)
(* objects from dictionaries, create / update / delete invoices through    *)
(* the client, and poll for an invoice PDF with a bounded number of        *)
(* retries.                                                                 *)
(*                                                                         *)
(* One behaviour of the model is one call of one helper.  Init draws the   *)
(* helper and its arguments; the actions are the steps of that helper's    *)
(* body.  The Fakturoid client (fa) and the requests library are outside   *)
(* the repository: the model records every call made on them (calls,       *)
(* requests, sleeps) and lets them answer nondeterministically.            *)
(*                                                                         *)
(* Python values are modelled as tokens (strings): None is "None", True is *)
(* "True", the empty list is "[]", the number 1 is "1".  A dict is a       *)
(* function whose DOMAIN is the set of its keys.                           *)
(***************************************************************************)
EXTENDS Integers, Sequences, FiniteSets, TLC

VARIABLES
    fn,                 \* the helper being called
    pc,                 \* the position in its body
    result,             \* how the call ended: [kind, value]
    fa,                 \* argument fa: the client, or NoClient for None
    invoice_id,         \* argument invoice_id
    data,               \* argument data / invoice_data / updated_data
    lines,              \* argument lines of create_invoice; local lines of
                        \* create_fakturoid_invoice_lines
    max_retries,        \* argument max_retries
    retry_delay,        \* argument retry_delay
    retries,            \* local retries of download_invoice_pdf
    url,                \* local url of download_invoice_pdf
    headers,            \* local headers of download_invoice_pdf
    response,           \* local response of download_invoice_pdf
    invoice,            \* local invoice of update_invoice / delete_invoice /
                        \* create_invoice
    existing_subjects,  \* local existing_subjects of create_fakturoid_subject
    new_subject,        \* local new_subject of create_fakturoid_subject
    idx,                \* position of a for loop over a list
    todo,               \* keys a for loop over a dict has not visited yet
    remote,             \* the invoices the service holds: id -> attributes
    remote0,            \* remote as it was when the call started
    calls,              \* every call made on the client, in order
    requests,           \* the distinct requests.get calls made: url, headers
    nRequests,          \* number of requests.get calls (saturates at MaxRequests)
    n204,               \* number of 204 responses received
    only204,            \* every response received so far was a 204
    sleeps              \* the argument of every time.sleep call, in order

vars == <<fn, pc, result, fa, invoice_id, data, lines, max_retries, retry_delay,
          retries, url, headers, response, invoice, existing_subjects,
          new_subject, idx, todo, remote, remote0, calls, requests, nRequests,
          n204, only204, sleeps>>

argVars == <<fn, fa, invoice_id, data, max_retries, retry_delay, remote0>>
pdfVars == <<retries, url, headers, response, requests, nRequests, n204,
             only204, sleeps>>

-----------------------------------------------------------------------------
(* Bounds of the model.                                                    *)

MaxRetries == 3         \* max_retries ranges over 0 .. MaxRetries
MaxLines == 2           \* create_fakturoid_invoice_lines gets at most MaxLines dicts
MaxSearch == 2          \* fa.subjects.search returns at most MaxSearch subjects

\* The request counter saturates here: above every max_retries, so that a
\* count below MaxRequests is exact.
MaxRequests == MaxRetries + 2

-----------------------------------------------------------------------------
(* Python values.                                                          *)

None == "None"
Unused == "unused"      \* a variable the called helper does not have

\* dict.get(key, default)
Get(d, key, default) == IF key \in DOMAIN d THEN d[key] ELSE default

\* Python truth of a token: None, '' and the empty list are false
Truthy(v) == v \notin {None, "", "[]"}

\* All dicts with keys among keySet and values among values
Dicts(keySet, values) == UNION {[K -> values] : K \in SUBSET keySet}

\* All dicts that give some of the keys of V a value, the value of key k
\* taken from V[k]
DictsOf(V) ==
    UNION {{d \in [K -> UNION {V[k] : k \in K}] : \A k \in K : d[k] \in V[k]} :
           K \in SUBSET DOMAIN V}

\* All lists over S of length at most n
ListsUpTo(S, n) == UNION {[1..k -> S] : k \in 0..n}

\* How a call ends.  value is a list of one element, the value returned or
\* the exception raised, and empty while the call runs.
Running == [kind |-> "running", value |-> <<>>]
Return(v) == [kind |-> "return", value |-> <<v>>]
Raise(e) == [kind |-> "raise", value |-> <<e>>]
Returned(v) == result.kind = "return" /\ result.value = <<v>>
Raised(e) == result.kind = "raise" /\ result.value = <<e>>

\* The client: a Fakturoid instance or None
NoClient == [present |-> FALSE, slug |-> None, user_agent |-> None, token |-> None]
Tokens == {"tokenA", "tokenB"}
Clients == [present : {TRUE}, slug : {"acme"}, user_agent : {"python-fakturoid"},
            token : Tokens]

InvoiceIds == {1, 2}


-----------------------------------------------------------------------------
(* download_invoice_pdf                                                    *)

DefaultRetryDelay == 2
RetryDelays == {1, DefaultRetryDelay}

\* The status codes the server may answer with: 200, 204, another 2xx, a
\* 3xx, a 4xx and a 5xx
StatusCodes == {200, 204, 201, 302, 404, 500}
Contents == {"pdfA", "pdfB"}

Is2xx(status) == 200 <= status /\ status < 300

get_fakturoid_invoice_pdf_url(id, slug) ==
    <<"https://app.fakturoid.cz/api/v3/accounts/", slug, "/invoices/", id,
      "/download.pdf">>

\* requests.Response.raise_for_status: raises HTTPError for a 4xx or 5xx
\* status and does nothing otherwise
HTTPError(resp) == [type |-> "HTTPError", response |-> resp]
RaisesForStatus(resp) == 400 <= resp.status_code /\ resp.status_code < 600

\* an off-by-one loop condition: one request too many
LoopCondition_OffByOne(r, m) == r <= m

\* the condition of the while loop
LoopCondition(r, m) == r < m

\* a 200 that is polled again like a 204
Branch_200AsNotReady(status) ==
    IF status \in {200, 204} THEN "sleep" ELSE "raise_for_status"

\* the branch of the if / elif / else on response.status_code
Branch(status) ==
    IF status = 200 THEN "return"
    ELSE IF status = 204 THEN "sleep"
    ELSE "raise_for_status"

\* url = ...; fa._ensure_token(); retries = 0; headers = {...}
\* _ensure_token may leave fa.token as it is or replace it.
PdfPrelude ==
    /\ fn = "download_invoice_pdf" /\ pc = "start"
    /\ url' = get_fakturoid_invoice_pdf_url(invoice_id, fa.slug)
    /\ \E t \in Tokens : fa' = [fa EXCEPT !.token = t]
    /\ calls' = Append(calls, [call |-> "_ensure_token"])
    /\ retries' = 0
    /\ headers' = [User_Agent |-> fa'.user_agent,
                   Authorization |-> <<"Bearer", fa'.token>>,
                   Accept |-> "application/pdf"]
    /\ pc' = "while"
    /\ UNCHANGED <<fn, result, invoice_id, data, lines, max_retries, retry_delay,
                   response, invoice, existing_subjects, new_subject, idx, todo,
                   remote, remote0, requests, nRequests, n204, only204, sleeps>>

\* while retries < max_retries: ... ; return None
PdfWhile ==
    /\ fn = "download_invoice_pdf" /\ pc = "while"
    /\ IF LoopCondition(retries, max_retries)
       THEN pc' = "get" /\ UNCHANGED result
       ELSE pc' = "done" /\ result' = Return(None)
    /\ UNCHANGED <<argVars, pdfVars, lines, invoice, existing_subjects,
                   new_subject, idx, todo, remote, calls>>

\* a request that first refreshes the token and rebuilds the headers
PdfGet_RefreshToken ==
    /\ fn = "download_invoice_pdf" /\ pc = "get"
    /\ \E t \in Tokens : fa' = [fa EXCEPT !.token = t]
    /\ calls' = Append(calls, [call |-> "_ensure_token"])
    /\ headers' = [headers EXCEPT !.Authorization = <<"Bearer", fa'.token>>]
    /\ \E status \in StatusCodes, content \in Contents :
          /\ response' = [status_code |-> status, content |-> content]
          /\ n204' = IF status = 204 THEN n204 + 1 ELSE n204
          /\ only204' = (only204 /\ status = 204)
    /\ requests' = requests \cup {[url |-> url, stream |-> TRUE, headers |-> headers']}
    /\ nRequests' = IF nRequests < MaxRequests THEN nRequests + 1 ELSE nRequests
    /\ pc' = "check"
    /\ UNCHANGED <<fn, invoice_id, data, max_retries, retry_delay, remote0, result,
                   lines, retries, url, invoice, existing_subjects, new_subject,
                   idx, todo, remote, sleeps>>

\* response = requests.get(url, stream=True, headers=headers)
PdfGet ==
    /\ fn = "download_invoice_pdf" /\ pc = "get"
    /\ \E status \in StatusCodes, content \in Contents :
          /\ response' = [status_code |-> status, content |-> content]
          /\ n204' = IF status = 204 THEN n204 + 1 ELSE n204
          /\ only204' = (only204 /\ status = 204)
    /\ requests' = requests \cup {[url |-> url, stream |-> TRUE, headers |-> headers]}
    /\ nRequests' = IF nRequests < MaxRequests THEN nRequests + 1 ELSE nRequests
    /\ pc' = "check"
    /\ UNCHANGED <<argVars, result, lines, retries, url, headers, invoice,
                   existing_subjects, new_subject, idx, todo, remote, calls, sleeps>>

\* if response.status_code == 200: return response.content
PdfReturnContent ==
    /\ fn = "download_invoice_pdf" /\ pc = "check"
    /\ Branch(response.status_code) = "return"
    /\ result' = Return(response.content)
    /\ pc' = "done"
    /\ UNCHANGED <<argVars, pdfVars, lines, invoice, existing_subjects,
                   new_subject, idx, todo, remote, calls>>

\* elif response.status_code == 204: time.sleep(retry_delay); retries += 1
PdfSleepRetry ==
    /\ fn = "download_invoice_pdf" /\ pc = "check"
    /\ Branch(response.status_code) = "sleep"
    /\ sleeps' = Append(sleeps, retry_delay)
    /\ retries' = retries + 1
    /\ pc' = "while"
    /\ UNCHANGED <<argVars, result, lines, url, headers, response, invoice,
                   existing_subjects, new_subject, idx, todo, remote, calls,
                   requests, nRequests, n204, only204>>

\* else: response.raise_for_status(), inside try / except HTTPError as e: raise e
PdfRaiseForStatus ==
    /\ fn = "download_invoice_pdf" /\ pc = "check"
    /\ Branch(response.status_code) = "raise_for_status"
    /\ IF RaisesForStatus(response)
       THEN pc' = "done" /\ result' = Raise(HTTPError(response))
       ELSE pc' = "while" /\ UNCHANGED result
    /\ UNCHANGED <<argVars, pdfVars, lines, invoice, existing_subjects,
                   new_subject, idx, todo, remote, calls>>

PdfNext ==
    \/ PdfPrelude
    \/ PdfWhile
    \/ PdfGet
    \/ PdfReturnContent
    \/ PdfSleepRetry
    \/ PdfRaiseForStatus

-----------------------------------------------------------------------------
(* update_invoice and delete_invoice                                       *)

\* An object of the client library: oid tells objects apart, attrs are its
\* attributes.  NoObject is None.
NoObject == <<>>
Object(oid, attrs) == [oid |-> oid, attrs |-> attrs]

InvoiceAttrs == {"note", "status"}
AttrMaps == Dicts(InvoiceAttrs, {"old"})
Remotes == UNION {[I -> AttrMaps] : I \in SUBSET InvoiceIds}

UpdateKeys == InvoiceAttrs \cup {"bogus"}
UpdateValues == {"new1", "new2"}

\* the client used where the token plays no part
Client == [present |-> TRUE, slug |-> "acme", user_agent |-> "python-fakturoid",
           token |-> "tokenA"]

\* fa.invoice(invoice_id): the invoice the service holds under that id, or None
FaInvoice(id) == IF id \in DOMAIN remote THEN Object(id, remote[id]) ELSE NoObject

\* fa.save(invoice): the service holds the invoice's attributes under its id
Saved(r, obj) == [i \in DOMAIN r \cup {obj.oid} |-> IF i = obj.oid THEN obj.attrs ELSE r[i]]

\* fa.delete(invoice): the service holds it no more
Deleted(r, obj) == [i \in DOMAIN r \ {obj.oid} |-> r[i]]

ValueError(id) == [type |-> "ValueError", invoice_id |-> id]

\* hasattr(obj, field) that holds of every name
hasattr_Always(obj, field) == TRUE

hasattr(obj, field) == field \in DOMAIN obj.attrs

setattr(obj, field, value) ==
    [obj EXCEPT !.attrs = [k \in DOMAIN obj.attrs \cup {field} |->
                              IF k = field THEN value ELSE obj.attrs[k]]]

\* invoice = fa.invoice(invoice_id)
UpdFetch ==
    /\ fn = "update_invoice" /\ pc = "start"
    /\ calls' = Append(calls, [call |-> "invoice", id |-> invoice_id])
    /\ invoice' = FaInvoice(invoice_id)
    /\ pc' = "check"
    /\ UNCHANGED <<argVars, pdfVars, result, lines, existing_subjects, new_subject,
                   idx, todo, remote>>

\* a not-found branch that gives up without raising
UpdNotFound_Silent ==
    /\ fn = "update_invoice" /\ pc = "check"
    /\ invoice = NoObject
    /\ result' = Return(None)
    /\ pc' = "done"
    /\ UNCHANGED <<argVars, pdfVars, lines, invoice, existing_subjects, new_subject,
                   idx, todo, remote, calls>>

\* if not invoice: raise ValueError(...)
UpdNotFound ==
    /\ fn = "update_invoice" /\ pc = "check"
    /\ invoice = NoObject
    /\ result' = Raise(ValueError(invoice_id))
    /\ pc' = "done"
    /\ UNCHANGED <<argVars, pdfVars, lines, invoice, existing_subjects, new_subject,
                   idx, todo, remote, calls>>

\* for field, value in updated_data.items(): entering the loop
UpdFound ==
    /\ fn = "update_invoice" /\ pc = "check"
    /\ invoice # NoObject
    /\ todo' = DOMAIN data
    /\ pc' = "loop"
    /\ UNCHANGED <<argVars, pdfVars, result, lines, invoice, existing_subjects,
                   new_subject, idx, remote, calls>>

\* if hasattr(invoice, field): setattr(invoice, field, value)
\* The keys of a dict are distinct; the loop visits them in the dict's order,
\* which is any order.
UpdField ==
    /\ fn = "update_invoice" /\ pc = "loop"
    /\ \E field \in todo :
          /\ invoice' = IF hasattr(invoice, field)
                        THEN setattr(invoice, field, data[field])
                        ELSE invoice
          /\ todo' = todo \ {field}
    /\ UNCHANGED <<argVars, pdfVars, pc, result, lines, existing_subjects,
                   new_subject, idx, remote, calls>>

\* fa.save(invoice); return invoice
UpdSave ==
    /\ fn = "update_invoice" /\ pc = "loop"
    /\ todo = {}
    /\ calls' = Append(calls, [call |-> "save", obj |-> invoice])
    /\ remote' = Saved(remote, invoice)
    /\ result' = Return(invoice)
    /\ pc' = "done"
    /\ UNCHANGED <<argVars, pdfVars, lines, invoice, existing_subjects, new_subject,
                   idx, todo>>

\* invoice = fa.invoice(invoice_id)
DelFetch ==
    /\ fn = "delete_invoice" /\ pc = "start"
    /\ calls' = Append(calls, [call |-> "invoice", id |-> invoice_id])
    /\ invoice' = FaInvoice(invoice_id)
    /\ pc' = "check"
    /\ UNCHANGED <<argVars, pdfVars, result, lines, existing_subjects, new_subject,
                   idx, todo, remote>>

\* if invoice: fa.delete(invoice)
DelDelete ==
    /\ fn = "delete_invoice" /\ pc = "check"
    /\ invoice # NoObject
    /\ calls' = Append(calls, [call |-> "delete", obj |-> invoice])
    /\ remote' = Deleted(remote, invoice)
    /\ result' = Return(None)
    /\ pc' = "done"
    /\ UNCHANGED <<argVars, pdfVars, lines, invoice, existing_subjects, new_subject,
                   idx, todo>>

\* else: raise ValueError(...)
DelNotFound ==
    /\ fn = "delete_invoice" /\ pc = "check"
    /\ invoice = NoObject
    /\ result' = Raise(ValueError(invoice_id))
    /\ pc' = "done"
    /\ UNCHANGED <<argVars, pdfVars, lines, invoice, existing_subjects, new_subject,
                   idx, todo, remote, calls>>

InvoiceNext ==
    \/ UpdFetch
    \/ UpdNotFound
    \/ UpdFound
    \/ UpdField
    \/ UpdSave
    \/ DelFetch
    \/ DelDelete
    \/ DelNotFound

-----------------------------------------------------------------------------

(* create_fakturoid_subject                                                *)

\* The keyword arguments of Subject(...) read with data.get(key, default):
\* the default of each.  name is read with data['name'].
SubjectDefaults ==
    [custom_id |-> None, type |-> None, full_name |-> None, email |-> None,
     email_copy |-> None, phone |-> None, web |-> None, street |-> None, city |-> None,
     zip |-> None, country |-> None, registration_no |-> None, vat_no |-> None,
     legal_form |-> None, vat_mode |-> None, bank_account |-> None, iban |-> None,
     swift_bic |-> None, variable_symbol |-> None, setting_update_from_ares |-> "inherit",
     ares_update |-> "True", setting_invoice_pdf_attachments |-> "inherit",
     setting_estimate_pdf_attachments |-> "inherit",
     setting_invoice_send_reminders |-> "inherit", suggestion_enabled |-> "True",
     custom_email_text |-> None, overdue_email_text |-> None,
     invoice_from_proforma_email_text |-> None, thank_you_email_text |-> None,
     custom_estimate_email_text |-> None, webinvoice_history |-> None,
     has_delivery_address |-> "False", delivery_name |-> None, delivery_street |-> None,
     delivery_city |-> None, delivery_zip |-> None, delivery_country |-> None,
     due |-> None, currency |-> None, language |-> None, private_note |-> None,
     local_vat_no |-> None]

\* Subject(custom_id=data.get('custom_id'), ..., name=data['name'], ...)
Subject(d) ==
    [f \in DOMAIN SubjectDefaults \cup {"name"} |->
        IF f = "name" THEN d["name"] ELSE Get(d, f, SubjectDefaults[f])]

KeyError(key) == [type |-> "KeyError", key |-> key]
AttributeError(attr) == [type |-> "AttributeError", attr |-> attr]

\* an object the service has not given an id yet
NewOid == 0

Emails == {"a@x", "b@x"}
SubjectData ==
    DictsOf([name |-> {"Ann"}, email |-> Emails \cup {"", None},
             suggestion_enabled |-> {"False"}])

\* the subjects fa.subjects.search may return
SubjectPool ==
    {Object(oid, [name |-> "Bob", email |-> e]) :
        oid \in {11, 12}, e \in Emails \cup {None}}

\* a comparison that takes every search result for a match
EmailMatches_Any(subject, d) == TRUE

\* subject.email == data['email']
EmailMatches(subject, d) == subject.attrs["email"] = d["email"]

\* if data.get('email'): false
SubjNoEmail ==
    /\ fn = "create_fakturoid_subject" /\ pc = "start"
    /\ ~Truthy(Get(data, "email", None))
    /\ pc' = "build"
    /\ UNCHANGED <<argVars, pdfVars, result, lines, invoice, existing_subjects,
                   new_subject, idx, todo, remote, calls>>

\* existing_subjects = fa.subjects.search(query=data['email'])
\* The service answers with any list of subjects.
SubjSearch ==
    /\ fn = "create_fakturoid_subject" /\ pc = "start"
    /\ Truthy(Get(data, "email", None))
    /\ fa.present
    /\ calls' = Append(calls, [call |-> "subjects.search", query |-> data["email"]])
    /\ existing_subjects' \in ListsUpTo(SubjectPool, MaxSearch)
    /\ idx' = 1
    /\ pc' = "scan"
    /\ UNCHANGED <<argVars, pdfVars, result, lines, invoice, new_subject, todo,
                   remote>>

\* fa.subjects when fa is None: AttributeError
SubjSearchNoClient ==
    /\ fn = "create_fakturoid_subject" /\ pc = "start"
    /\ Truthy(Get(data, "email", None))
    /\ ~fa.present
    /\ result' = Raise(AttributeError("subjects"))
    /\ pc' = "done"
    /\ UNCHANGED <<argVars, pdfVars, lines, invoice, existing_subjects, new_subject,
                   idx, todo, remote, calls>>

\* for subject in existing_subjects: if subject.email == data['email']: return subject
SubjScan ==
    /\ fn = "create_fakturoid_subject" /\ pc = "scan"
    /\ idx <= Len(existing_subjects)
    /\ IF EmailMatches(existing_subjects[idx], data)
       THEN /\ result' = Return(existing_subjects[idx])
            /\ pc' = "done"
            /\ UNCHANGED idx
       ELSE /\ idx' = idx + 1
            /\ UNCHANGED <<pc, result>>
    /\ UNCHANGED <<argVars, pdfVars, lines, invoice, existing_subjects, new_subject,
                   todo, remote, calls>>

\* the for loop ends without a match
SubjScanEnd ==
    /\ fn = "create_fakturoid_subject" /\ pc = "scan"
    /\ idx > Len(existing_subjects)
    /\ pc' = "build"
    /\ UNCHANGED <<argVars, pdfVars, result, lines, invoice, existing_subjects,
                   new_subject, idx, todo, remote, calls>>

\* new_subject = Subject(...); data['name'] raises KeyError without the key
SubjBuild ==
    /\ fn = "create_fakturoid_subject" /\ pc = "build"
    /\ IF "name" \in DOMAIN data
       THEN /\ new_subject' = Object(NewOid, Subject(data))
            /\ pc' = "save"
            /\ UNCHANGED result
       ELSE /\ result' = Raise(KeyError("name"))
            /\ pc' = "done"
            /\ UNCHANGED new_subject
    /\ UNCHANGED <<argVars, pdfVars, lines, invoice, existing_subjects, idx, todo,
                   remote, calls>>

\* if fa is not None: fa.save(new_subject); return new_subject
SubjSave ==
    /\ fn = "create_fakturoid_subject" /\ pc = "save"
    /\ calls' = IF fa.present
                THEN Append(calls, [call |-> "save", obj |-> new_subject])
                ELSE calls
    /\ result' = Return(new_subject)
    /\ pc' = "done"
    /\ UNCHANGED <<argVars, pdfVars, lines, invoice, existing_subjects, new_subject,
                   idx, todo, remote>>

SubjectNext ==
    \/ SubjNoEmail
    \/ SubjSearch
    \/ SubjSearchNoClient
    \/ SubjScan
    \/ SubjScanEnd
    \/ SubjBuild
    \/ SubjSave

-----------------------------------------------------------------------------

(* create_fakturoid_invoice_lines                                          *)

\* The keyword arguments of InvoiceLine(...) read with line.get(key, default)
\* and a constant default.  name and unit_price are read with line[...];
\* unit_price_without_vat defaults to line['unit_price'].
InvoiceLineDefaults ==
    [id |-> None, quantity |-> "1", unit_name |-> "ks", vat_rate |-> "0",
     unit_price_with_vat |-> None, total_price_without_vat |-> None, total_vat |-> None,
     native_total_price_without_vat |-> None, native_total_vat |-> None,
     inventory_item_id |-> None, sku |-> None, inventory |-> None]

\* a constructor whose unit_price_without_vat defaults to None
InvoiceLine_NoPriceDefault(line) ==
    [f \in DOMAIN InvoiceLineDefaults
           \cup {"name", "unit_price", "unit_price_without_vat"} |->
        IF f \in {"name", "unit_price"} THEN line[f]
        ELSE IF f = "unit_price_without_vat" THEN Get(line, f, None)
        ELSE Get(line, f, InvoiceLineDefaults[f])]

\* InvoiceLine(id=line.get('id'), name=line['name'], ...)
InvoiceLine(line) ==
    [f \in DOMAIN InvoiceLineDefaults
           \cup {"name", "unit_price", "unit_price_without_vat"} |->
        IF f \in {"name", "unit_price"} THEN line[f]
        ELSE IF f = "unit_price_without_vat" THEN Get(line, f, line["unit_price"])
        ELSE Get(line, f, InvoiceLineDefaults[f])]

\* the key whose line[...] fails first, in the order the arguments are read
MissingKey(line) == IF "name" \notin DOMAIN line THEN "name" ELSE "unit_price"

RequiredLineKeys == {"name", "unit_price"}
OptionalLineKeys == {"quantity", "unit_name", "vat_rate", "unit_price_without_vat"}

\* The line dicts tried: any of the required keys, and none, one or all of
\* the optional keys
LineDicts ==
    {d \in DictsOf([name |-> {"item"}, unit_price |-> {"10", "20"},
                    quantity |-> {"3"}, unit_name |-> {"hod"}, vat_rate |-> {"21"},
                    unit_price_without_vat |-> {"8"}]) :
        \/ Cardinality(DOMAIN d \cap OptionalLineKeys) <= 1
        \/ OptionalLineKeys \subseteq DOMAIN d}

\* for line in data: lines.append(InvoiceLine(...))
LinesAppend ==
    /\ fn = "create_fakturoid_invoice_lines" /\ pc = "start"
    /\ idx <= Len(data)
    /\ IF RequiredLineKeys \subseteq DOMAIN data[idx]
       THEN /\ lines' = Append(lines, InvoiceLine(data[idx]))
            /\ idx' = idx + 1
            /\ UNCHANGED <<pc, result>>
       ELSE /\ result' = Raise(KeyError(MissingKey(data[idx])))
            /\ pc' = "done"
            /\ UNCHANGED <<lines, idx>>
    /\ UNCHANGED <<argVars, pdfVars, invoice, existing_subjects, new_subject, todo,
                   remote, calls>>

\* return lines
LinesReturn ==
    /\ fn = "create_fakturoid_invoice_lines" /\ pc = "start"
    /\ idx > Len(data)
    /\ result' = Return(lines)
    /\ pc' = "done"
    /\ UNCHANGED <<argVars, pdfVars, lines, invoice, existing_subjects, new_subject,
                   idx, todo, remote, calls>>

LinesNext ==
    \/ LinesAppend
    \/ LinesReturn

-----------------------------------------------------------------------------
(* create_invoice                                                          *)

\* The keyword arguments of Invoice(...) read with
\* invoice_data.get(key, default): the default of each.  lines is the
\* argument lines.
InvoiceDefaults ==
    [custom_id |-> None, document_type |-> "invoice", proforma_followup_document |-> None,
     tax_document_ids |-> "[]", correction_id |-> None, number |-> None,
     number_format_id |-> None, variable_symbol |-> None, your_name |-> None,
     your_street |-> None, your_city |-> None, your_zip |-> None, your_country |-> None,
     your_registration_no |-> None, your_vat_no |-> None, your_local_vat_no |-> None,
     client_name |-> None, client_street |-> None, client_city |-> None,
     client_zip |-> None, client_country |-> None, client_has_delivery_address |-> "False",
     client_delivery_name |-> None, client_delivery_street |-> None,
     client_delivery_city |-> None, client_delivery_zip |-> None,
     client_delivery_country |-> None, client_registration_no |-> None,
     client_vat_no |-> None, client_local_vat_no |-> None, subject_id |-> None,
     subject_custom_id |-> None, generator_id |-> None, related_id |-> None,
     paypal |-> "False", gopay |-> "False", token |-> None, status |-> "open",
     order_number |-> None, issued_on |-> None, taxable_fulfillment_due |-> None,
     due |-> None, due_on |-> None, sent_at |-> None, paid_on |-> None,
     reminder_sent_at |-> None, cancelled_at |-> None, uncollectible_at |-> None,
     locked_at |-> None, webinvoice_seen_on |-> None, note |-> None, footer_note |-> None,
     private_note |-> None, tags |-> "[]", bank_account_id |-> None, bank_account |-> None,
     iban |-> None, swift_bic |-> None, iban_visibility |-> "automatically",
     show_already_paid_note_in_pdf |-> "False", payment_method |-> "bank",
     custom_payment_method |-> None, hide_bank_account |-> None, language |-> "cz",
     transferred_tax_liability |-> "False", supply_code |-> None, oss |-> "disabled",
     vat_price_mode |-> "without_vat", round_total |-> "False", subtotal |-> None,
     total |-> None, native_subtotal |-> None, native_total |-> None,
     remaining_amount |-> None, remaining_native_amount |-> None, eet_records |-> "[]",
     vat_rates_summary |-> "[]", paid_advances |-> "[]", payments |-> "[]",
     attachments |-> "[]"]

\* a constructor with another default language
Invoice_OtherLanguage(d, l) ==
    [f \in DOMAIN InvoiceDefaults \cup {"lines"} |->
        IF f = "lines" THEN l
        ELSE IF f = "language" THEN Get(d, f, "sk")
        ELSE Get(d, f, InvoiceDefaults[f])]

\* Invoice(custom_id=invoice_data.get('custom_id'), ..., lines=lines, ...)
Invoice(d, l) ==
    [f \in DOMAIN InvoiceDefaults \cup {"lines"} |->
        IF f = "lines" THEN l ELSE Get(d, f, InvoiceDefaults[f])]

InvoiceData ==
    DictsOf([document_type |-> {"proforma"}, status |-> {"paid"},
             payment_method |-> {"cash"}, language |-> {"en"}, note |-> {"hello"},
             lines |-> {"other"}])

\* the InvoiceLine objects the lines argument is made of
LineObjects == {InvoiceLine([name |-> "item", unit_price |-> p]) : p \in {"10", "20"}}

\* invoice = Invoice(...)
InvBuild ==
    /\ fn = "create_invoice" /\ pc = "start"
    /\ invoice' = Object(NewOid, Invoice(data, lines))
    /\ pc' = "save"
    /\ UNCHANGED <<argVars, pdfVars, result, lines, existing_subjects, new_subject,
                   idx, todo, remote, calls>>

\* if fa is not None: fa.save(invoice); return invoice
InvSave ==
    /\ fn = "create_invoice" /\ pc = "save"
    /\ calls' = IF fa.present
                THEN Append(calls, [call |-> "save", obj |-> invoice])
                ELSE calls
    /\ result' = Return(invoice)
    /\ pc' = "done"
    /\ UNCHANGED <<argVars, pdfVars, lines, invoice, existing_subjects, new_subject,
                   idx, todo, remote>>

CreateNext ==
    \/ InvBuild
    \/ InvSave

-----------------------------------------------------------------------------

\* The locals and the records of a call that has not started
InitLocals ==
    /\ pc = "start"
    /\ result = Running
    /\ retries = 0
    /\ url = <<>>
    /\ headers = <<>>
    /\ response = [status_code |-> 0, content |-> None]
    /\ invoice = <<>>
    /\ existing_subjects = <<>>
    /\ new_subject = <<>>
    /\ idx = 1
    /\ todo = {}
    /\ calls = <<>>
    /\ requests = {}
    /\ nRequests = 0
    /\ n204 = 0
    /\ only204 = TRUE
    /\ sleeps = <<>>

PdfInit ==
    /\ fn = "download_invoice_pdf"
    /\ fa \in Clients
    /\ invoice_id \in InvoiceIds
    /\ retry_delay \in RetryDelays
    /\ max_retries \in 0..MaxRetries
    /\ data = Unused
    /\ lines = Unused
    /\ remote = <<>>
    /\ remote0 = remote
    /\ InitLocals

UpdInit ==
    /\ fn = "update_invoice"
    /\ fa = Client
    /\ invoice_id \in InvoiceIds
    /\ data \in Dicts(UpdateKeys, UpdateValues)
    /\ remote \in Remotes
    /\ remote0 = remote
    /\ retry_delay = 0
    /\ max_retries = 0
    /\ lines = Unused
    /\ InitLocals

DelInit ==
    /\ fn = "delete_invoice"
    /\ fa = Client
    /\ invoice_id \in InvoiceIds
    /\ data = Unused
    /\ remote \in Remotes
    /\ remote0 = remote
    /\ retry_delay = 0
    /\ max_retries = 0
    /\ lines = Unused
    /\ InitLocals

SubjInit ==
    /\ fn = "create_fakturoid_subject"
    /\ fa \in {Client, NoClient}
    /\ data \in SubjectData
    /\ invoice_id = 0
    /\ remote = <<>>
    /\ remote0 = remote
    /\ retry_delay = 0
    /\ max_retries = 0
    /\ lines = Unused
    /\ InitLocals

LinesInit ==
    /\ fn = "create_fakturoid_invoice_lines"
    /\ fa = NoClient
    /\ data \in ListsUpTo(LineDicts, MaxLines)
    /\ lines = <<>>
    /\ invoice_id = 0
    /\ remote = <<>>
    /\ remote0 = remote
    /\ retry_delay = 0
    /\ max_retries = 0
    /\ InitLocals

CreateInit ==
    /\ fn = "create_invoice"
    /\ fa \in {Client, NoClient}
    /\ data \in InvoiceData
    /\ lines \in ListsUpTo(LineObjects, MaxLines)
    /\ invoice_id = 0
    /\ remote = <<>>
    /\ remote0 = remote
    /\ retry_delay = 0
    /\ max_retries = 0
    /\ InitLocals

-----------------------------------------------------------------------------

Init ==
    \/ PdfInit
    \/ UpdInit
    \/ DelInit
    \/ SubjInit
    \/ LinesInit
    \/ CreateInit

Next ==
    \/ PdfNext
    \/ InvoiceNext
    \/ SubjectNext
    \/ LinesNext
    \/ CreateNext

Spec == Init /\ [][Next]_vars

\* The interpreter keeps running the call, and the server answers every
\* request: a step that can be taken is eventually taken.
FairSpec == Spec /\ WF_vars(Next)

-----------------------------------------------------------------------------
(* Properties of download_invoice_pdf                                      *)

Downloading == fn = "download_invoice_pdf"

\* C1: download_invoice_pdf terminates for every max_retries >= 0 and every
\* sequence of status codes the server answers with: every call eventually
\* returns bytes, returns None or raises.
C1_Terminates == Downloading ~> (pc = "done")

\* C2: a response whose status is not 200, not 204 and not a 2xx makes the
\* function raise at once: no sleep, no change of the retry counter, no
\* further request, and the exception raised is the one raise_for_status
\* raised.
C2_NonSuccessRaisesAtOnce ==
    [][(/\ Downloading /\ pc = "check"
        /\ response.status_code \notin {200, 204}
        /\ ~Is2xx(response.status_code))
       => (/\ pc' = "done"
           /\ result'.kind = "raise"
           /\ result'.value = <<HTTPError(response)>>
           /\ sleeps' = sleeps
           /\ retries' = retries
           /\ nRequests' = nRequests
           /\ requests' = requests)]_vars

\* C3: a response with status 200 ends the call: the function returns that
\* response's content, the step sends no request and sleeps not, and nothing
\* happens after the call has ended, however many 204 responses came before.
C3_First200Returns ==
    /\ [][(Downloading /\ pc = "check" /\ response.status_code = 200)
          => (/\ pc' = "done"
              /\ result'.kind = "return"
              /\ result'.value = <<response.content>>
              /\ nRequests' = nRequests
              /\ requests' = requests
              /\ sleeps' = sleeps)]_vars
    /\ [][(Downloading /\ pc = "done") => UNCHANGED vars]_vars

\* a call that returned the content of a 200 that came after two or more 204s
C3_Witness ==
    /\ Downloading /\ pc = "done"
    /\ response.status_code = 200
    /\ Returned(response.content)
    /\ n204 >= 2 /\ n204 < max_retries
    /\ Len(sleeps) = n204

\* C4: the number of 204 responses handled never exceeds max_retries, and a
\* call the server answered with nothing but 204 has, when it ends, sent
\* exactly max_retries requests (none when max_retries is 0) and returns
\* None without raising.
C4_ExhaustionReturnsNone ==
    Downloading =>
        /\ n204 <= max_retries
        /\ only204 => (nRequests = n204 /\ result.kind # "raise")
        /\ (pc = "done" /\ only204)
              => (Returned(None) /\ nRequests = max_retries)

\* a call that gave up after max_retries >= 2 responses, all 204
C4_Witness ==
    /\ Downloading /\ pc = "done" /\ only204
    /\ max_retries >= 2 /\ nRequests = max_retries
    /\ Returned(None)

\* a call with max_retries = 0 that ended without any request
C4_WitnessZero ==
    /\ Downloading /\ pc = "done" /\ max_retries = 0 /\ nRequests = 0

\* C8: every sleep lasts retry_delay and is followed by another request: a
\* call that made n requests has slept at most n - 1 times.
C8_SleepsOnlyBetweenRequests ==
    (Downloading /\ pc = "done") =>
        /\ \A i \in 1..Len(sleeps) : sleeps[i] = retry_delay
        /\ Len(sleeps) <= (IF nRequests = 0 THEN 0 ELSE nRequests - 1)

-----------------------------------------------------------------------------
(* Properties of update_invoice and delete_invoice                         *)

Fetched == fn \in {"update_invoice", "delete_invoice"} /\ pc # "start"
FetchCall == [call |-> "invoice", id |-> invoice_id]

\* C5: update_invoice and delete_invoice raise ValueError when
\* fa.invoice(invoice_id) yields no invoice, having made no fa.save and no
\* fa.delete call, so that the service holds what it held; when the invoice
\* exists, delete_invoice calls fa.delete on it exactly once and does not
\* raise.
C5_NotFoundRaisesValueError ==
    /\ (Fetched /\ invoice = NoObject) =>
          /\ calls = <<FetchCall>>
          /\ remote = remote0
          /\ pc = "done" => Raised(ValueError(invoice_id))
    /\ (Fetched /\ invoice # NoObject /\ fn = "delete_invoice" /\ pc = "done") =>
          /\ calls = <<FetchCall, [call |-> "delete", obj |-> invoice]>>
          /\ invoice = Object(invoice_id, remote0[invoice_id])
          /\ Returned(None)

\* update_invoice has ended for an id the service does not hold, while it
\* holds another invoice
C5_Witness ==
    /\ fn = "update_invoice" /\ pc = "done"
    /\ invoice = NoObject
    /\ Raised(ValueError(invoice_id))
    /\ DOMAIN remote # {} /\ DOMAIN data # {}

\* delete_invoice has deleted an invoice the service held
C5_WitnessDeleted ==
    /\ fn = "delete_invoice" /\ pc = "done"
    /\ invoice # NoObject
    /\ invoice_id \notin DOMAIN remote /\ invoice_id \in DOMAIN remote0

\* C9: for an existing invoice, update_invoice assigns updated_data[field] to
\* exactly the fields of updated_data the fetched invoice has as attributes,
\* ignores every other key without error, leaves every other attribute as it
\* was, calls fa.save exactly once, after all assignments, on the fetched
\* invoice object, and returns that object.
C9_UpdateAssignsExistingFields ==
    (fn = "update_invoice" /\ pc = "done" /\ invoice # NoObject) =>
        /\ invoice.oid = invoice_id
        /\ DOMAIN invoice.attrs = DOMAIN remote0[invoice_id]
        /\ \A k \in DOMAIN invoice.attrs :
              invoice.attrs[k] = IF k \in DOMAIN data THEN data[k]
                                 ELSE remote0[invoice_id][k]
        /\ calls = <<FetchCall, [call |-> "save", obj |-> invoice]>>
        /\ Returned(invoice)

\* an update that assigned one attribute, ignored an unknown key and left
\* another attribute alone
C9_Witness ==
    /\ fn = "update_invoice" /\ pc = "done" /\ invoice # NoObject
    /\ DOMAIN invoice.attrs = {"note", "status"}
    /\ DOMAIN data = {"note", "bogus"}
    /\ invoice.attrs["note"] = data["note"]
    /\ invoice.attrs["status"] = "old"
    /\ Len(calls) = 2

-----------------------------------------------------------------------------
(* Properties of create_fakturoid_subject                                  *)

SubjectDone == fn = "create_fakturoid_subject" /\ pc = "done"
HasEmail == Truthy(Get(data, "email", None))

\* the positions of existing_subjects whose email is data['email']
Matches == {i \in 1..Len(existing_subjects) :
               existing_subjects[i].attrs["email"] = data["email"]}
FirstMatch == CHOOSE i \in Matches : \A j \in Matches : i <= j
SearchCall == [call |-> "subjects.search", query |-> data["email"]]

\* a search was made and found a subject with exactly data['email']
Retrieves == HasEmail /\ fa.present /\ Matches # {}

\* the first exact match is returned and fa.save is not called
RetrievedFirstMatch ==
    /\ Returned(existing_subjects[FirstMatch])
    /\ calls = <<SearchCall>>

\* The claim as stated in C6: the first exact match is retrieved without a
\* save; in every other case one Subject is built from data and saved once.
C6_CreateOrRetrieve ==
    SubjectDone =>
        IF Retrieves
        THEN RetrievedFirstMatch
        ELSE /\ Returned(Object(NewOid, Subject(data)))
             /\ Len(SelectSeq(calls, LAMBDA c : c.call = "save")) = 1

\* C6, amended: the first exact match is retrieved without a save; in every
\* other case with a key 'name' in data and either a client or no non-empty
\* email, one Subject is built from data and returned, saved exactly once
\* when fa is not None and never when fa is None.  Without 'name' the call
\* raises KeyError, and with a non-empty email and fa None it raises
\* AttributeError; neither saves anything.
C6_CreateOrRetrieveAmended ==
    SubjectDone =>
        IF Retrieves THEN RetrievedFirstMatch
        ELSE IF HasEmail /\ ~fa.present
        THEN Raised(AttributeError("subjects")) /\ calls = <<>>
        ELSE IF "name" \notin DOMAIN data
        THEN /\ Raised(KeyError("name"))
             /\ calls = IF HasEmail THEN <<SearchCall>> ELSE <<>>
        ELSE /\ Returned(Object(NewOid, Subject(data)))
             /\ new_subject = Object(NewOid, Subject(data))
             /\ calls = (IF HasEmail THEN <<SearchCall>> ELSE <<>>)
                        \o (IF fa.present
                            THEN <<[call |-> "save", obj |-> new_subject]>>
                            ELSE <<>>)

\* the second of two search results is the first exact match, and is returned
C6_Witness ==
    /\ SubjectDone /\ Retrieves
    /\ Len(existing_subjects) = 2 /\ FirstMatch = 2
    /\ Returned(existing_subjects[2])

\* a search without an exact match, after which a new subject was saved
C6_WitnessCreated ==
    /\ SubjectDone /\ HasEmail /\ fa.present
    /\ Len(existing_subjects) = 2 /\ Matches = {}
    /\ Len(calls) = 2 /\ calls[2] = [call |-> "save", obj |-> new_subject]
    /\ new_subject.attrs["suggestion_enabled"] = "True"

-----------------------------------------------------------------------------
(* Properties of create_fakturoid_invoice_lines and create_invoice         *)

LinesDone == fn = "create_fakturoid_invoice_lines" /\ pc = "done"

\* what the claim says the line built from dict d carries
LineAsClaimed(l, d) ==
    /\ l["name"] = d["name"]
    /\ l["unit_price"] = d["unit_price"]
    /\ l["quantity"] = (IF "quantity" \in DOMAIN d THEN d["quantity"] ELSE "1")
    /\ l["unit_name"] = (IF "unit_name" \in DOMAIN d THEN d["unit_name"] ELSE "ks")
    /\ l["vat_rate"] = (IF "vat_rate" \in DOMAIN d THEN d["vat_rate"] ELSE "0")
    /\ l["unit_price_without_vat"] =
          (IF "unit_price_without_vat" \in DOMAIN d
           THEN d["unit_price_without_vat"] ELSE d["unit_price"])

\* C7: create_fakturoid_invoice_lines returns one InvoiceLine per input
\* dict, in input order, with quantity 1, unit_name 'ks', vat_rate 0 and
\* unit_price_without_vat the line's unit_price where those keys are absent;
\* if any dict lacks 'name' or 'unit_price' the call raises KeyError and
\* returns no list.
C7_OneLinePerDict ==
    LinesDone =>
        IF \A i \in 1..Len(data) : {"name", "unit_price"} \subseteq DOMAIN data[i]
        THEN /\ result.kind = "return"
             /\ Len(result.value[1]) = Len(data)
             /\ \A i \in 1..Len(data) : LineAsClaimed(result.value[1][i], data[i])
        ELSE /\ result.kind = "raise"
             /\ result.value[1].type = "KeyError"
             /\ result.value[1].key \in {"name", "unit_price"}

\* two lines returned in order: the first from a dict with the required keys
\* only, the second from a dict with every key
C7_Witness ==
    /\ LinesDone /\ result.kind = "return"
    /\ Len(data) = 2
    /\ DOMAIN data[1] = {"name", "unit_price"}
    /\ OptionalLineKeys \subseteq DOMAIN data[2]
    /\ data[1]["unit_price"] # data[2]["unit_price"]
    /\ result.value[1][1]["unit_price_without_vat"] = data[1]["unit_price"]
    /\ result.value[1][2]["unit_price"] = data[2]["unit_price"]

\* a KeyError on the second dict, after the first was turned into a line
C7_WitnessKeyError ==
    /\ LinesDone /\ result.kind = "raise"
    /\ Len(data) = 2 /\ Len(lines) = 1

CreateDone == fn = "create_invoice" /\ pc = "done"

\* C10: create_invoice returns an Invoice whose lines are the lines argument
\* and whose document_type, status, payment_method and language are
\* 'invoice', 'open', 'bank' and 'cz' when absent from invoice_data; it calls
\* fa.save on that invoice exactly once when fa is not None and makes no
\* client call when fa is None.
C10_CreateInvoice ==
    CreateDone =>
        /\ Returned(invoice)
        /\ invoice.attrs["lines"] = lines
        /\ invoice.attrs["document_type"] =
              (IF "document_type" \in DOMAIN data THEN data["document_type"] ELSE "invoice")
        /\ invoice.attrs["status"] =
              (IF "status" \in DOMAIN data THEN data["status"] ELSE "open")
        /\ invoice.attrs["payment_method"] =
              (IF "payment_method" \in DOMAIN data THEN data["payment_method"] ELSE "bank")
        /\ invoice.attrs["language"] =
              (IF "language" \in DOMAIN data THEN data["language"] ELSE "cz")
        /\ calls = (IF fa.present THEN <<[call |-> "save", obj |-> invoice]>> ELSE <<>>)

\* an invoice with two lines and the four defaults, saved once
C10_Witness ==
    /\ CreateDone /\ fa.present
    /\ DOMAIN data = {"note", "lines"}
    /\ Len(lines) = 2 /\ lines[1] # lines[2]
    /\ invoice.attrs["lines"] = lines
    /\ invoice.attrs["language"] = "cz"
    /\ Len(calls) = 1

\* an invoice built without a client: no client call
C10_WitnessNoClient ==
    /\ CreateDone /\ ~fa.present /\ calls = <<>> /\ Returned(invoice)

-----------------------------------------------------------------------------
(* The token, the URL and the headers of download_invoice_pdf              *)

EnsureTokenCall == [call |-> "_ensure_token"]

\* the one request a call repeats: the URL of the invoice's PDF under the
\* account's slug, and the headers with the client's token as bearer
TheRequest ==
    [url |-> <<"https://app.fakturoid.cz/api/v3/accounts/", fa.slug, "/invoices/",
               invoice_id, "/download.pdf">>,
     stream |-> TRUE,
     headers |-> [User_Agent |-> fa.user_agent,
                  Authorization |-> <<"Bearer", fa.token>>,
                  Accept |-> "application/pdf"]]

\* C11: download_invoice_pdf calls fa._ensure_token exactly once, before the
\* first request; every request of the call uses the same URL, built from
\* fa.slug and invoice_id, and the same bearer-token headers; the token is
\* not refreshed between retries.
C11_OneTokenSameRequest ==
    Downloading =>
        /\ pc = "start" => (calls = <<>> /\ nRequests = 0 /\ requests = {})
        /\ pc # "start" => calls = <<EnsureTokenCall>>
        /\ requests \subseteq {TheRequest}
        /\ nRequests > 0 => requests = {TheRequest}

\* a call that has sent three requests or more, all the same, after one
\* _ensure_token call
C11_Witness ==
    /\ Downloading /\ nRequests >= 3 /\ n204 >= 2
    /\ requests = {TheRequest}
    /\ calls = <<EnsureTokenCall>>

=============================================================================
